---- MODULE Spec2Model ----
(***************************************************************************)
(* Quine-McCluskey Boolean minimizer                                       *)
(* (src/Quine_McCluskey_Algorithm/Quine_McCluskey_Algorithm.cpp).          *)
(*                                                                         *)
(* The state is one QuineMcCluskey object (numVars, minterms, dontcares,   *)
(* varNames), the position of a running minimize() call (pc) and the       *)
(* locals of that call.  Strings are sequences of one-character strings.   *)
(***************************************************************************)
EXTENDS Integers, Sequences, FiniteSets, TLC

VARIABLES
    numVars,            \* int numVars
    minterms,           \* std::vector<int> minterms
    dontcares,          \* std::vector<int> dontcares
    varNames,           \* std::vector<char> varNames
    shiftUB,            \* what this build computes for (1 << numVars) - 1, numVars < 0
    pc,                 \* position of the running minimize() call
    calls,              \* number of minimize() calls started on the object
    allTerms,           \* minimize: allTerms
    groups,             \* findPrimeImplicants: groups
    round,              \* findPrimeImplicants: iterations of while (changed) so far
    lastRound,          \* findPrimeImplicants: what the latest iteration did
    primeImplicants,    \* findPrimeImplicants / minimize: primeImplicants
    essentialPrimes,    \* minimize: essentialPrimes
    cover,              \* findMinimalCover: cover / minimize: minimalCover
    uncoveredMinterms,  \* findMinimalCover: uncoveredMinterms
    remainingPrimes,    \* findMinimalCover: remainingPrimes
    lastPick,           \* findMinimalCover: what the latest greedy iteration did
    result,             \* the string minimize() returned
    error,              \* the std::runtime_error minimize() threw
    firstOutcome,       \* outcome of the previous call on the same object
    other               \* a second object and its call, while it is not the one stepping

vars == <<numVars, minterms, dontcares, varNames, shiftUB, pc, calls, allTerms,
          groups, round, lastRound, primeImplicants, essentialPrimes, cover,
          uncoveredMinterms, remainingPrimes, lastPick, result, error,
          firstOutcome, other>>

----------------------------------------------------------------------------
(* Bounds of the checked instances.                                        *)

\* minimize() calls made on one object
MaxCalls == 2

\* longest minterm vector of the arbitrary-order, repeated-element instances
MaxSeqLen == 3

\* iterations of the merge loop of findPrimeImplicants that are followed
MaxRounds == 10

\* the limit minimize() tests numVars against
VarLimit == 8

\* variable counts whose instances are enumerated exhaustively
FullVarCounts == {1, 2, 3}

\* variable counts whose arbitrary-order instances are enumerated
SeqVarCounts == {1, 2}

\* larger variable counts, checked on a few vectors each
WideVarCounts == {4, 5, 8}

\* variable counts outside [1, 8]
BadVarCounts == {-1, 0, 9}

----------------------------------------------------------------------------
(* Arithmetic and sequence helpers.                                        *)

RECURSIVE Pow2(_)
Pow2(n) == IF n <= 0 THEN 1 ELSE 2 * Pow2(n - 1)

SetToSeqs(S) == {f \in [1..Cardinality(S) -> S] : \A i, j \in DOMAIN f : i # j => f[i] # f[j]}

Min(S) == CHOOSE x \in S : \A y \in S : x <= y

\* the elements of a set of ints, ascending
SortedSeqOfSet(S) ==
    SubSeq([i \in 1..Cardinality(S) |->
               CHOOSE v \in S : Cardinality({w \in S : w < v}) = i - 1],
           1, Cardinality(S))

Range(s) == {s[i] : i \in DOMAIN s}

\* std::sort of a vector of ints: position i holds the value v with fewer
\* than i elements below it and at least i elements not above it
SortInts(s) ==
    SubSeq([i \in 1..Len(s) |->
               CHOOSE v \in Range(s) :
                   /\ Cardinality({j \in 1..Len(s) : s[j] < v}) < i
                   /\ i <= Cardinality({j \in 1..Len(s) : s[j] <= v})],
           1, Len(s))

\* the subsequence of s at the indices that satisfy Keep, in order
KeepIndices(s, Keep(_)) ==
    LET idxs == SelectSeq([i \in 1..Len(s) |-> i], Keep)
    IN  [p \in 1..Len(idxs) |-> s[idxs[p]]]

\* erase(std::unique(...), end()): an element equal to its predecessor goes
Unique(s) == KeepIndices(s, LAMBDA i : i = 1 \/ s[i] # s[i - 1])

----------------------------------------------------------------------------
(* Term model.                                                             *)

\* intToBinary writing the least significant bit first
intToBinaryLSB(n, nv) ==
    [k \in 1..nv |-> IF (n \div Pow2(k - 1)) % 2 = 1 THEN "1" ELSE "0"]

intToBinary(n, nv) ==
    [k \in 1..nv |-> IF (n \div Pow2(nv - k)) % 2 = 1 THEN "1" ELSE "0"]

ImplicantOfTerm(term, nv) ==
    [minterms |-> <<term>>, binary |-> intToBinary(term, nv),
     isPrime |-> TRUE, isEssential |-> FALSE]

\* the merge constructor keeping a's minterms only
ImplicantMergeFirstOnly(a, b) ==
    [minterms |-> SortInts(a.minterms),
     binary |-> [i \in 1..Len(a.binary) |->
                    IF a.binary[i] # b.binary[i] THEN "-" ELSE a.binary[i]],
     isPrime |-> TRUE, isEssential |-> FALSE]

ImplicantMerge(a, b) ==
    [minterms |-> SortInts(a.minterms \o b.minterms),
     binary |-> [i \in 1..Len(a.binary) |->
                    IF a.binary[i] # b.binary[i] THEN "-" ELSE a.binary[i]],
     isPrime |-> TRUE, isEssential |-> FALSE]

\* canMerge counting only the positions where neither operand has '-'
canMergeDashWild(a, b) ==
    /\ Len(a.binary) = Len(b.binary)
    /\ Cardinality({i \in 1..Len(a.binary) :
                       /\ a.binary[i] # "-" /\ b.binary[i] # "-"
                       /\ a.binary[i] # b.binary[i]}) = 1

canMerge(a, b) ==
    /\ Len(a.binary) = Len(b.binary)
    /\ Cardinality({i \in 1..Len(a.binary) : a.binary[i] # b.binary[i]}) = 1

countOnes(imp) == Cardinality({i \in 1..Len(imp.binary) : imp.binary[i] = "1"})

covers(imp, term, nv) ==
    LET termBinary == intToBinary(term, nv)
    IN  \A i \in 1..Len(imp.binary) :
            imp.binary[i] = "-" \/ imp.binary[i] = termBinary[i]

Letters == <<"A", "B", "C", "D", "E", "F", "G", "H", "I">>

initializeVarNames(nv) == [i \in 1..nv |-> Letters[i]]

----------------------------------------------------------------------------
(* Ordering of patterns: std::string operator< on the binary field.        *)

CharCode(c) == CASE c = "-" -> 45 [] c = "0" -> 48 [] c = "1" -> 49

binaryLess(a, b) ==
    LET n == IF Len(a) < Len(b) THEN Len(a) ELSE Len(b)
        diff == {i \in 1..n : a[i] # b[i]}
    IN  IF diff = {} THEN Len(a) < Len(b)
        ELSE CharCode(a[Min(diff)]) < CharCode(b[Min(diff)])

\* std::sort with the comparator a.binary < b.binary: position i holds the
\* element that i - 1 elements precede.  Implicants that compare equivalent
\* are equal values wherever the program sorts, so the order std::sort leaves
\* them in (here: their old order) does not show.
SortByBinary(s) ==
    LET Precedes(k, j) ==
            \/ binaryLess(s[k].binary, s[j].binary)
            \/ s[k].binary = s[j].binary /\ k < j
    IN  SubSeq([i \in 1..Len(s) |->
                   s[CHOOSE j \in 1..Len(s) :
                         Cardinality({k \in 1..Len(s) : Precedes(k, j)}) = i - 1]],
               1, Len(s))

\* removeDuplicates without the erase(std::unique(...))
UniqueByBinaryKeepAll(s) == s

\* std::unique with the predicate a.binary == b.binary: the first of each run stays
UniqueByBinary(s) ==
    KeepIndices(s, LAMBDA i : i = 1 \/ s[i].binary # s[i - 1].binary)

\* removeDuplicates without its sort
removeDuplicatesNoSort(implicants) == UniqueByBinary(implicants)

removeDuplicates(implicants) ==
    CHOOSE r \in {UniqueByBinary(sorted) : sorted \in {SortByBinary(implicants)}} : TRUE

----------------------------------------------------------------------------
(* Step 1: findPrimeImplicants.                                            *)

\* groups[imp.countOnes()].push_back(imp), for the implicants of imps in order
GroupByOnes(imps) ==
    [c \in {countOnes(imps[i]) : i \in DOMAIN imps} |->
        SelectSeq(imps, LAMBDA x : countOnes(x) = c)]

InitialGroups(terms, nv) ==
    GroupByOnes([i \in 1..Len(terms) |-> ImplicantOfTerm(terms[i], nv)])

getSortedKeys(g) == SortedSeqOfSet(DOMAIN g)

RECURSIVE SumSizes(_, _, _)
SumSizes(g, keys, n) ==
    IF n <= 0 THEN 0 ELSE Len(g[keys[n]]) + SumSizes(g, keys, n - 1)

\* markIndex on entry to iteration i (1-based) of the merge loop over keys
MergeMarkIndex(g, keys, i) == SumSizes(g, keys, i - 1)

\* markIndex of the collecting loop without markIndex += pair.second.size()
CollectMarkIndexNoAdvance(g, keys, t) == 0

\* markIndex on entry to the t-th pair of the collecting loop over the map
CollectMarkIndex(g, keys, t) == SumSizes(g, keys, t - 1)

\* the (j, k) pairs, 1-based and in loop order, that merge in iteration i
MergePairs(g, keys, i) ==
    LET group1 == g[keys[i]]
        group2 == g[keys[i + 1]]
        n2 == Len(group2)
        all == [p \in 1..(Len(group1) * n2) |->
                   <<((p - 1) \div n2) + 1, ((p - 1) % n2) + 1>>]
    IN  IF keys[i + 1] - keys[i] = 1
        THEN SelectSeq(all, LAMBDA jk : canMerge(group1[jk[1]], group2[jk[2]]))
        ELSE <<>>

\* the merging pairs of iterations 1..n of the merge loop, one sequence each
RECURSIVE AllPairs(_, _, _)
AllPairs(g, keys, n) ==
    IF n <= 0 THEN <<>> ELSE Append(AllPairs(g, keys, n - 1), MergePairs(g, keys, n))

\* the implicants pushed to newGroups in iteration i, whose merging pairs are
\* pairs, in order
MergedOf(g, keys, pairs, i) ==
    [p \in 1..Len(pairs) |->
        ImplicantMerge(g[keys[i]][pairs[p][1]], g[keys[i + 1]][pairs[p][2]])]

\* the marking of iteration i without marked[nextGroupStart + k] = true
MarksOfFirstOnly(g, keys, pairs, i) ==
    LET markIndex == MergeMarkIndex(g, keys, i)
    IN  {markIndex + (pairs[p][1] - 1) : p \in 1..Len(pairs)}

\* the 0-based indices of marked set to true in iteration i
MarksOf(g, keys, pairs, i) ==
    LET markIndex == MergeMarkIndex(g, keys, i)
        nextGroupStart == markIndex + Len(g[keys[i]])
    IN  {markIndex + (pairs[p][1] - 1) : p \in 1..Len(pairs)}
        \cup {nextGroupStart + (pairs[p][2] - 1) : p \in 1..Len(pairs)}

RECURSIVE AllMerged(_, _, _, _)
AllMerged(g, keys, allPairs, n) ==
    IF n <= 0 THEN <<>>
    ELSE AllMerged(g, keys, allPairs, n - 1) \o MergedOf(g, keys, allPairs[n], n)

\* the marked array after the merge loop
Marked(g, keys, allPairs) ==
    LET totalSize == SumSizes(g, keys, Len(keys))
        hits == UNION {MarksOf(g, keys, allPairs[i], i) : i \in 1..(Len(keys) - 1)}
    IN  [idx \in 0..(totalSize - 1) |-> idx \in hits]

\* the implicants of the t-th pair of the map that the collecting loop appends
UnmarkedOf(g, keys, marked, t) ==
    LET markIndex == CollectMarkIndex(g, keys, t)
    IN  KeepIndices(g[keys[t]], LAMBDA i : ~marked[markIndex + (i - 1)])

RECURSIVE AllUnmarked(_, _, _, _)
AllUnmarked(g, keys, marked, n) ==
    IF n <= 0 THEN <<>>
    ELSE AllUnmarked(g, keys, marked, n - 1) \o UnmarkedOf(g, keys, marked, n)

----------------------------------------------------------------------------
(* Step 2: findEssentialPrimes.                                            *)

\* the loop of findEssentialPrimes without the test for an entry with the
\* same binary
RECURSIVE EssentialFoldNoDedup(_, _, _, _)
EssentialFoldNoDedup(ms, primes, nv, acc) ==
    IF ms = <<>> THEN acc
    ELSE LET coveringPrimes == SelectSeq(primes, LAMBDA imp : covers(imp, Head(ms), nv))
             next == IF Len(coveringPrimes) = 1
                     THEN Append(acc, [coveringPrimes[1] EXCEPT !.isEssential = TRUE])
                     ELSE acc
         IN  CHOOSE r \in {EssentialFoldNoDedup(Tail(ms), primes, nv, a) : a \in {next}} : TRUE

\* the loop over this->minterms, from its first element, with the essential
\* primes found so far in acc
RECURSIVE EssentialFold(_, _, _, _)
EssentialFold(ms, primes, nv, acc) ==
    IF ms = <<>> THEN acc
    ELSE LET coveringPrimes == SelectSeq(primes, LAMBDA imp : covers(imp, Head(ms), nv))
             found == \E e \in 1..Len(acc) : acc[e].binary = coveringPrimes[1].binary
             next == IF Len(coveringPrimes) = 1 /\ ~found
                     THEN Append(acc, [coveringPrimes[1] EXCEPT !.isEssential = TRUE])
                     ELSE acc
         IN  CHOOSE r \in {EssentialFold(Tail(ms), primes, nv, a) : a \in {next}} : TRUE

\* findEssentialPrimes looping over allTerms instead of this->minterms
findEssentialPrimesAllTerms(primes, ms, nv) == EssentialFold(allTerms, primes, nv, <<>>)

\* findEssentialPrimes passing over the minterms that are also don't-cares
findEssentialPrimesSkipDontCares(primes, ms, nv) ==
    EssentialFold(SelectSeq(ms, LAMBDA m : m \notin Range(dontcares)), primes, nv, <<>>)

\* findEssentialPrimes leaving its loop after the first minterm
findEssentialPrimesFirstTerm(primes, ms, nv) ==
    EssentialFold(IF ms = <<>> THEN <<>> ELSE <<Head(ms)>>, primes, nv, <<>>)

findEssentialPrimes(primes, ms, nv) == EssentialFold(ms, primes, nv, <<>>)

----------------------------------------------------------------------------
(* Step 3: findMinimalCover.                                               *)

\* the loop over this->minterms started at its second element
UncoveredAfterSkipFirst(essential, ms, nv) ==
    {ms[i] : i \in {k \in 2..Len(ms) :
                      ~\E e \in 1..Len(essential) : covers(essential[e], ms[k], nv)}}

\* the loop run over allTerms instead of this->minterms
UncoveredAfterAllTerms(essential, ms, nv) ==
    {m \in Range(allTerms) : ~\E e \in 1..Len(essential) : covers(essential[e], m, nv)}

\* uncoveredMinterms filled without the test against the essential primes
UncoveredAfterIgnoreEssentials(essential, ms, nv) == Range(ms)

\* the minterms no essential prime covers
UncoveredAfter(essential, ms, nv) ==
    {m \in Range(ms) : ~\E e \in 1..Len(essential) : covers(essential[e], m, nv)}

\* remainingPrimes filled with the primes that are essential
RemainingAfterInverted(allPrimes, essential) ==
    SelectSeq(allPrimes,
              LAMBDA imp : \E e \in 1..Len(essential) : essential[e].binary = imp.binary)

\* the primes whose pattern is not that of an essential prime
RemainingAfter(allPrimes, essential) ==
    SelectSeq(allPrimes,
              LAMBDA imp : ~\E e \in 1..Len(essential) : essential[e].binary = imp.binary)

coverCount(imp, uncovered, nv) ==
    Cardinality({m \in uncovered : covers(imp, m, nv)})

\* the scan for bestIdx comparing with >=, so that the last maximum wins
RECURSIVE BestScanLastMax(_, _, _, _, _, _)
BestScanLastMax(rem, uncovered, nv, i, maxCover, bestIdx) ==
    IF i > Len(rem) THEN bestIdx
    ELSE IF coverCount(rem[i], uncovered, nv) >= maxCover
         THEN BestScanLastMax(rem, uncovered, nv, i + 1, coverCount(rem[i], uncovered, nv), i)
         ELSE BestScanLastMax(rem, uncovered, nv, i + 1, maxCover, bestIdx)

\* the scan for bestIdx (1-based; 0 stands for the code's -1), from index i
RECURSIVE BestScan(_, _, _, _, _, _)
BestScan(rem, uncovered, nv, i, maxCover, bestIdx) ==
    IF i > Len(rem) THEN bestIdx
    ELSE IF coverCount(rem[i], uncovered, nv) > maxCover
         THEN BestScan(rem, uncovered, nv, i + 1, coverCount(rem[i], uncovered, nv), i)
         ELSE BestScan(rem, uncovered, nv, i + 1, maxCover, bestIdx)

BestIdx(rem, uncovered, nv) == BestScan(rem, uncovered, nv, 1, -1, 0)

\* vector::erase(begin() + idx)
EraseAt(s, idx) == [i \in 1..(Len(s) - 1) |-> IF i < idx THEN s[i] ELSE s[i + 1]]

----------------------------------------------------------------------------
(* Step 4: formatSOP.                                                      *)

\* binaryToTerm with the branches for '0' and '1' exchanged
RECURSIVE binaryToTermSwapped(_, _, _)
binaryToTermSwapped(binary, names, i) ==
    IF i > Len(binary) THEN <<>>
    ELSE (IF binary[i] = "1" THEN <<names[i], "'">>
          ELSE IF binary[i] = "0" THEN <<names[i]>>
          ELSE <<>>) \o binaryToTermSwapped(binary, names, i + 1)

RECURSIVE binaryToTermFrom(_, _, _)
binaryToTermFrom(binary, names, i) ==
    IF i > Len(binary) THEN <<>>
    ELSE (IF binary[i] = "0" THEN <<names[i], "'">>
          ELSE IF binary[i] = "1" THEN <<names[i]>>
          ELSE <<>>) \o binaryToTermFrom(binary, names, i + 1)

binaryToTerm(binary, names) == binaryToTermFrom(binary, names, 1)

OrSeparator == <<" ", "+", " ">>

\* the loop that builds result with the separator added after every term
RECURSIVE JoinTermsTrailing(_, _, _)
JoinTermsTrailing(cv, names, n) ==
    IF n <= 0 THEN <<>>
    ELSE LET term == binaryToTerm(cv[n].binary, names)
         IN  JoinTermsTrailing(cv, names, n - 1)
             \o (IF term # <<>> THEN term \o OrSeparator ELSE <<>>)

\* the loop that builds result, up to and including cover[n]
RECURSIVE JoinTerms(_, _, _)
JoinTerms(cv, names, n) ==
    IF n <= 0 THEN <<>>
    ELSE LET term == binaryToTerm(cv[n].binary, names)
         IN  JoinTerms(cv, names, n - 1)
             \o (IF term # <<>>
                 THEN term \o (IF n < Len(cv) THEN OrSeparator ELSE <<>>)
                 ELSE <<>>)

\* formatSOP with the all-ones test looking for a '-' (find('-') != npos)
formatSOPAnyDash(cv, names) ==
    IF cv = <<>> THEN <<"0">>
    ELSE IF \E i \in 1..Len(cv) :
                \E k \in 1..Len(cv[i].binary) : cv[i].binary[k] = "-"
         THEN <<"1">>
    ELSE LET res == JoinTerms(cv, names, Len(cv))
         IN  IF res = <<>> THEN <<"1">> ELSE res

\* formatSOP without the all-'-' test and without the "1" for an empty result
formatSOPNoConstants(cv, names) ==
    IF cv = <<>> THEN <<"0">> ELSE JoinTerms(cv, names, Len(cv))

formatSOP(cv, names) ==
    IF cv = <<>> THEN <<"0">>
    ELSE IF \E i \in 1..Len(cv) :
                \A k \in 1..Len(cv[i].binary) : cv[i].binary[k] \notin {"0", "1"}
         THEN <<"1">>
    ELSE LET res == JoinTerms(cv, names, Len(cv))
         IN  IF res = <<>> THEN <<"1">> ELSE res

----------------------------------------------------------------------------
(* minimize() as a function of the constructor's arguments: the value a    *)
(* call that passes the checks on entry returns when nothing else runs.    *)

\* the while (changed) loop, entered with groups g and primeImplicants acc
RECURSIVE PrimeLoop(_, _)
PrimeLoop(g, acc) ==
    LET keys == getSortedKeys(g)
        allPairs == AllPairs(g, keys, Len(keys) - 1)
        merged == AllMerged(g, keys, allPairs, Len(keys) - 1)
        emitted == AllUnmarked(g, keys, Marked(g, keys, allPairs), Len(keys))
    IN  IF merged # <<>>
        THEN PrimeLoop(GroupByOnes(merged), acc \o emitted)
        ELSE removeDuplicates(acc \o emitted)

findPrimeImplicants(terms, nv) ==
    IF terms = <<>> THEN <<>> ELSE PrimeLoop(InitialGroups(terms, nv), <<>>)

\* the greedy loop, entered with cover cv, uncoveredMinterms unc and
\* remainingPrimes rem
RECURSIVE GreedyLoop(_, _, _, _)
GreedyLoop(cv, unc, rem, nv) ==
    IF unc = {} \/ rem = <<>> THEN cv
    ELSE LET bestIdx == BestIdx(rem, unc, nv)
         IN  GreedyLoop(Append(cv, rem[bestIdx]),
                        {m \in unc : ~covers(rem[bestIdx], m, nv)},
                        EraseAt(rem, bestIdx), nv)

findMinimalCover(allPrimes, essential, ms, nv) ==
    LET uncovered == UncoveredAfter(essential, ms, nv)
    IN  IF uncovered = {} THEN essential
        ELSE SortByBinary(GreedyLoop(essential, uncovered,
                                     RemainingAfter(allPrimes, essential), nv))

minimize(nv, ms, ds) ==
    LET primes == findPrimeImplicants(Unique(SortInts(ms \o ds)), nv)
        essential == findEssentialPrimes(primes, ms, nv)
    IN  formatSOP(findMinimalCover(primes, essential, ms, nv), initializeVarNames(nv))

----------------------------------------------------------------------------
(* The instances a QuineMcCluskey object is constructed with.              *)

TermsOf(nv) == 0..(Pow2(nv) - 1)

SeqsUpTo(S, n) == UNION {[1..k -> S] : k \in 0..n}

\* every pair of disjoint sets of in-range terms, each as an ascending vector
FullInstances ==
    UNION {{[nv |-> n,
             m |-> SortedSeqOfSet({t \in TermsOf(n) : f[t] = 1}),
             d |-> SortedSeqOfSet({t \in TermsOf(n) : f[t] = 2})] :
                f \in [TermsOf(n) -> {0, 1, 2}]} : n \in FullVarCounts}

\* vectors in any order, with repeated elements, with a term in both vectors,
\* and with terms just below and just above the range
SeqInstances ==
    UNION {{[nv |-> n, m |-> ms, d |-> ds] :
                ms \in SeqsUpTo(-1..(Pow2(n) + 1), MaxSeqLen),
                ds \in SeqsUpTo(-1..(Pow2(n) + 1), 1)} : n \in SeqVarCounts}

\* the functions of runTests' Tests 3, 4 and 5, in every order of their vectors
PermInstances ==
    UNION {{[nv |-> 3, m |-> ms, d |-> ds] :
                ms \in SetToSeqs(c[1]), ds \in SetToSeqs(c[2])} :
           c \in {<<{0, 2, 4, 6}, {1, 5}>>, <<{1, 2, 4, 7}, {}>>, <<{3, 5, 6, 7}, {}>>}}

WideInstances ==
    UNION {{[nv |-> n, m |-> ms, d |-> ds] :
                ms \in {<<>>, <<0>>, <<Pow2(n) - 1>>, <<Pow2(n)>>, <<-1>>,
                        <<0, Pow2(n) - 1>>, <<1, 0>>, <<3, 1>>,
                        <<1, 2, 5, 6, 7, 8, 9, 10>>},
                ds \in {<<>>, <<1>>, <<2, 0>>, <<Pow2(n)>>}} : n \in WideVarCounts}

BadInstances ==
    UNION {{[nv |-> n, m |-> ms, d |-> ds] :
                ms \in {<<>>, <<0>>, <<1>>, <<0, 1>>},
                ds \in {<<>>, <<0>>}} : n \in BadVarCounts}

Instances ==
    FullInstances \cup SeqInstances \cup PermInstances \cup WideInstances \cup BadInstances

\* (1 << numVars) - 1 with numVars < 0 is undefined: a build yields some int,
\* the same one each time it runs the expression
ShiftOutcomes(nv) == IF nv < 0 THEN {-1, 0, 2147483647} ELSE {0}

----------------------------------------------------------------------------
(* State machine.                                                          *)

NoError == [kind |-> "none", what |-> "", term |-> 0]

NoRound == [groups |-> <<>>, keys |-> <<>>, marked |-> <<>>, merged |-> <<>>,
            emitted |-> <<>>]

NoPick == [idx |-> 0, prime |-> <<>>, before |-> {}, candidates |-> <<>>]

NoOutcome == [pc |-> "none", result |-> <<>>, error |-> NoError]

\* an object constructed with inst, and the call on it that is about to start
NewObject(id, inst, sh) ==
    [id |-> id, numVars |-> inst.nv, minterms |-> inst.m, dontcares |-> inst.d,
     varNames |-> initializeVarNames(inst.nv), shiftUB |-> sh,
     pc |-> "start", calls |-> 1, allTerms |-> <<>>, groups |-> <<>>, round |-> 0,
     lastRound |-> NoRound, primeImplicants |-> <<>>, essentialPrimes |-> <<>>,
     cover |-> <<>>, uncoveredMinterms |-> {}, remainingPrimes |-> <<>>,
     lastPick |-> NoPick, result |-> <<>>, error |-> NoError,
     firstOutcome |-> NoOutcome]

\* there is no second object
NoObject == [NewObject(0, [nv |-> 0, m |-> <<>>, d |-> <<>>], 0) EXCEPT !.pc = "none"]

\* the object that is stepping and its call, as they are set aside
ObjectState(id) ==
    [id |-> id, numVars |-> numVars, minterms |-> minterms, dontcares |-> dontcares,
     varNames |-> varNames, shiftUB |-> shiftUB,
     pc |-> pc, calls |-> calls, allTerms |-> allTerms, groups |-> groups,
     round |-> round, lastRound |-> lastRound, primeImplicants |-> primeImplicants,
     essentialPrimes |-> essentialPrimes, cover |-> cover,
     uncoveredMinterms |-> uncoveredMinterms, remainingPrimes |-> remainingPrimes,
     lastPick |-> lastPick, result |-> result, error |-> error,
     firstOutcome |-> firstOutcome]

\* the locals of a call that has not started
FreshLocals ==
    /\ allTerms = <<>>
    /\ groups = <<>>
    /\ round = 0
    /\ lastRound = NoRound
    /\ primeImplicants = <<>>
    /\ essentialPrimes = <<>>
    /\ cover = <<>>
    /\ uncoveredMinterms = {}
    /\ remainingPrimes = <<>>
    /\ lastPick = NoPick
    /\ result = <<>>
    /\ error = NoError

\* QuineMcCluskey(vars, m, dc)
Init ==
    /\ \E inst \in Instances :
          /\ numVars = inst.nv
          /\ minterms = inst.m
          /\ dontcares = inst.d
          /\ varNames = initializeVarNames(inst.nv)
          /\ shiftUB \in ShiftOutcomes(inst.nv)
    /\ pc = "start"
    /\ calls = 1
    /\ firstOutcome = NoOutcome
    /\ other = NoObject
    /\ FreshLocals

ObjectUnchanged == UNCHANGED <<numVars, minterms, dontcares, varNames, shiftUB>>

\* maxTerm without the - 1
MaxTermOffByOne == IF numVars >= 0 THEN Pow2(numVars) ELSE shiftUB

MaxTerm == IF numVars >= 0 THEN Pow2(numVars) - 1 ELSE shiftUB

OutOfRange(term) == term < 0 \/ term > MaxTerm

\* the first element of s that is out of range
FirstBad(s) == s[Min({i \in 1..Len(s) : OutOfRange(s[i])})]

\* the exception minimize() throws on entry, NoError when it throws none
ValidationError ==
    IF numVars > VarLimit
    THEN [kind |-> "InvalidVariableCount", what |-> "", term |-> 0]
    ELSE IF \E i \in 1..Len(minterms) : OutOfRange(minterms[i])
    THEN [kind |-> "TermOutOfRange", what |-> "Minterm", term |-> FirstBad(minterms)]
    ELSE IF \E i \in 1..Len(dontcares) : OutOfRange(dontcares[i])
    THEN [kind |-> "TermOutOfRange", what |-> "Don't care term",
          term |-> FirstBad(dontcares)]
    ELSE NoError

\* minimize(): the checks on entry throw
ValidateFail ==
    /\ pc = "start"
    /\ ValidationError # NoError
    /\ error' = ValidationError
    /\ pc' = "failed"
    /\ ObjectUnchanged
    /\ UNCHANGED other
    /\ UNCHANGED <<calls, allTerms, groups, round, lastRound, primeImplicants,
                   essentialPrimes, cover, uncoveredMinterms, remainingPrimes,
                   lastPick, result, firstOutcome>>

\* ValidateOk with the union built in this->minterms itself, not in a copy
ValidateOkInPlace ==
    /\ pc = "start"
    /\ ValidationError = NoError
    /\ allTerms' = Unique(SortInts(minterms \o dontcares))
    /\ minterms' = allTerms'
    /\ pc' = "primes"
    /\ UNCHANGED <<numVars, dontcares, varNames, shiftUB>>
    /\ UNCHANGED other
    /\ UNCHANGED <<calls, groups, round, lastRound, primeImplicants,
                   essentialPrimes, cover, uncoveredMinterms, remainingPrimes,
                   lastPick, result, error, firstOutcome>>

\* minimize(): the checks pass; allTerms is built, sorted and made unique
ValidateOk ==
    /\ pc = "start"
    /\ ValidationError = NoError
    /\ allTerms' = Unique(SortInts(minterms \o dontcares))
    /\ pc' = "primes"
    /\ ObjectUnchanged
    /\ UNCHANGED other
    /\ UNCHANGED <<calls, groups, round, lastRound, primeImplicants,
                   essentialPrimes, cover, uncoveredMinterms, remainingPrimes,
                   lastPick, result, error, firstOutcome>>

\* findPrimeImplicants: no terms, the empty list is returned
PrimesEmpty ==
    /\ pc = "primes"
    /\ allTerms = <<>>
    /\ primeImplicants' = <<>>
    /\ pc' = "essential"
    /\ ObjectUnchanged
    /\ UNCHANGED other
    /\ UNCHANGED <<calls, allTerms, groups, round, lastRound, essentialPrimes,
                   cover, uncoveredMinterms, remainingPrimes, lastPick, result,
                   error, firstOutcome>>

\* findPrimeImplicants: the initial implicants are grouped by their count of ones
PrimesStart ==
    /\ pc = "primes"
    /\ allTerms # <<>>
    /\ groups' = InitialGroups(allTerms, numVars)
    /\ primeImplicants' = <<>>
    /\ pc' = "merge"
    /\ ObjectUnchanged
    /\ UNCHANGED other
    /\ UNCHANGED <<calls, allTerms, round, lastRound, essentialPrimes, cover,
                   uncoveredMinterms, remainingPrimes, lastPick, result, error,
                   firstOutcome>>

\* changed never reset to false at the top of the iteration
ChangedSticky(merged) == TRUE

\* changed, at the end of an iteration that pushed merged to newGroups
Changed(merged) == merged # <<>>

\* findPrimeImplicants: one iteration of while (changed); the iteration that
\* merges nothing leaves the loop, removes the duplicates and returns
MergeRound ==
    /\ pc = "merge"
    /\ round < MaxRounds
    /\ \E keys \in {getSortedKeys(groups)} :
       \E allPairs \in {AllPairs(groups, keys, Len(keys) - 1)} :
       \E merged \in {AllMerged(groups, keys, allPairs, Len(keys) - 1)} :
       \E marked \in {Marked(groups, keys, allPairs)} :
       \E emitted \in {AllUnmarked(groups, keys, marked, Len(keys))} :
           /\ lastRound' = [groups |-> groups, keys |-> keys, marked |-> marked,
                            merged |-> merged, emitted |-> emitted]
           /\ groups' = GroupByOnes(merged)
           /\ round' = round + 1
           /\ IF Changed(merged)
              THEN /\ primeImplicants' = primeImplicants \o emitted
                   /\ pc' = "merge"
              ELSE /\ \E collected \in {primeImplicants \o emitted} :
                          primeImplicants' = removeDuplicates(collected)
                   /\ pc' = "essential"
    /\ ObjectUnchanged
    /\ UNCHANGED other
    /\ UNCHANGED <<calls, allTerms, essentialPrimes, cover, uncoveredMinterms,
                   remainingPrimes, lastPick, result, error, firstOutcome>>

\* minimize(): Step 2
Essential ==
    /\ pc = "essential"
    /\ essentialPrimes' = findEssentialPrimes(primeImplicants, minterms, numVars)
    /\ pc' = "cover"
    /\ ObjectUnchanged
    /\ UNCHANGED other
    /\ UNCHANGED <<calls, allTerms, groups, round, lastRound, primeImplicants,
                   cover, uncoveredMinterms, remainingPrimes, lastPick, result,
                   error, firstOutcome>>

\* CoverStart with cover not initialised from the essential primes
CoverStartNoEssentials ==
    /\ pc = "cover"
    /\ cover' = <<>>
    /\ uncoveredMinterms' = UncoveredAfter(essentialPrimes, minterms, numVars)
    /\ IF uncoveredMinterms' = {}
       THEN /\ remainingPrimes' = <<>>
            /\ pc' = "format"
       ELSE /\ remainingPrimes' = RemainingAfter(primeImplicants, essentialPrimes)
            /\ pc' = "greedy"
    /\ ObjectUnchanged
    /\ UNCHANGED other
    /\ UNCHANGED <<calls, allTerms, groups, round, lastRound, primeImplicants,
                   essentialPrimes, lastPick, result, error, firstOutcome>>

\* findMinimalCover up to the greedy loop; with nothing uncovered the
\* essential primes are returned as they are
CoverStart ==
    /\ pc = "cover"
    /\ cover' = essentialPrimes
    /\ uncoveredMinterms' = UncoveredAfter(essentialPrimes, minterms, numVars)
    /\ IF uncoveredMinterms' = {}
       THEN /\ remainingPrimes' = <<>>
            /\ pc' = "format"
       ELSE /\ remainingPrimes' = RemainingAfter(primeImplicants, essentialPrimes)
            /\ pc' = "greedy"
    /\ ObjectUnchanged
    /\ UNCHANGED other
    /\ UNCHANGED <<calls, allTerms, groups, round, lastRound, primeImplicants,
                   essentialPrimes, lastPick, result, error, firstOutcome>>

\* the condition of the greedy loop
GreedyContinue == uncoveredMinterms # {} /\ remainingPrimes # <<>>

\* findMinimalCover: one iteration of the greedy loop
GreedyStep ==
    /\ pc = "greedy"
    /\ GreedyContinue
    /\ LET bestIdx == BestIdx(remainingPrimes, uncoveredMinterms, numVars)
       IN  IF bestIdx >= 1
           THEN /\ lastPick' = [idx |-> bestIdx, prime |-> remainingPrimes[bestIdx],
                                before |-> uncoveredMinterms,
                                candidates |-> remainingPrimes]
                /\ cover' = Append(cover, remainingPrimes[bestIdx])
                /\ uncoveredMinterms' =
                      {m \in uncoveredMinterms :
                          ~covers(remainingPrimes[bestIdx], m, numVars)}
                /\ remainingPrimes' = EraseAt(remainingPrimes, bestIdx)
           ELSE UNCHANGED <<lastPick, cover, uncoveredMinterms, remainingPrimes>>
    /\ pc' = "greedy"
    /\ ObjectUnchanged
    /\ UNCHANGED other
    /\ UNCHANGED <<calls, allTerms, groups, round, lastRound, primeImplicants,
                   essentialPrimes, result, error, firstOutcome>>

\* findMinimalCover: the greedy loop is left, the cover is sorted and returned
GreedyExit ==
    /\ pc = "greedy"
    /\ ~GreedyContinue
    /\ cover' = SortByBinary(cover)
    /\ pc' = "format"
    /\ ObjectUnchanged
    /\ UNCHANGED other
    /\ UNCHANGED <<calls, allTerms, groups, round, lastRound, primeImplicants,
                   essentialPrimes, uncoveredMinterms, remainingPrimes, lastPick,
                   result, error, firstOutcome>>

\* minimize(): Step 4, and the return
Format ==
    /\ pc = "format"
    /\ result' = formatSOP(cover, varNames)
    /\ pc' = "done"
    /\ ObjectUnchanged
    /\ UNCHANGED other
    /\ UNCHANGED <<calls, allTerms, groups, round, lastRound, primeImplicants,
                   essentialPrimes, cover, uncoveredMinterms, remainingPrimes,
                   lastPick, error, firstOutcome>>

\* minimize() is called again on the same object, its locals are new
CallAgain ==
    /\ pc \in {"done", "failed"}
    /\ calls < MaxCalls
    /\ firstOutcome' = [pc |-> pc, result |-> result, error |-> error]
    /\ calls' = calls + 1
    /\ pc' = "start"
    /\ allTerms' = <<>>
    /\ groups' = <<>>
    /\ round' = 0
    /\ lastRound' = NoRound
    /\ primeImplicants' = <<>>
    /\ essentialPrimes' = <<>>
    /\ cover' = <<>>
    /\ uncoveredMinterms' = {}
    /\ remainingPrimes' = <<>>
    /\ lastPick' = NoPick
    /\ result' = <<>>
    /\ error' = NoError
    /\ ObjectUnchanged
    /\ UNCHANGED other

Next ==
    \/ ValidateFail
    \/ ValidateOk
    \/ PrimesEmpty
    \/ PrimesStart
    \/ MergeRound
    \/ Essential
    \/ CoverStart
    \/ GreedyStep
    \/ GreedyExit
    \/ Format
    \/ CallAgain

Spec == Init /\ [][Next]_vars

\* Two objects, each with a call of minimize(), their steps interleaved.
PairInstances ==
    {[nv |-> 2, m |-> <<0, 1, 2>>, d |-> <<>>],
     [nv |-> 2, m |-> <<2, 1, 0>>, d |-> <<>>],
     [nv |-> 3, m |-> <<0, 1, 2, 5, 6, 7>>, d |-> <<>>],
     [nv |-> 3, m |-> <<0, 2, 4, 6>>, d |-> <<1, 5>>],
     [nv |-> 3, m |-> <<7, 4, 2, 1>>, d |-> <<>>],
     [nv |-> 4, m |-> <<0, 1, 2, 5, 6, 7>>, d |-> <<8>>],
     [nv |-> 2, m |-> <<>>, d |-> <<>>],
     [nv |-> 2, m |-> <<5>>, d |-> <<>>]}

PairInit ==
    /\ \E a, b \in PairInstances :
          /\ numVars = a.nv
          /\ minterms = a.m
          /\ dontcares = a.d
          /\ varNames = initializeVarNames(a.nv)
          /\ shiftUB = 0
          /\ other = NewObject(2, b, 0)
    /\ pc = "start"
    /\ calls = 1
    /\ firstOutcome = NoOutcome
    /\ FreshLocals

\* the step that comes next with uncoveredMinterms one static set that the
\* calls on both objects use
SwitchSharedUncovered ==
    /\ other.id # 0
    /\ other' = ObjectState(3 - other.id)
    /\ numVars' = other.numVars
    /\ minterms' = other.minterms
    /\ dontcares' = other.dontcares
    /\ varNames' = other.varNames
    /\ shiftUB' = other.shiftUB
    /\ pc' = other.pc
    /\ calls' = other.calls
    /\ allTerms' = other.allTerms
    /\ groups' = other.groups
    /\ round' = other.round
    /\ lastRound' = other.lastRound
    /\ primeImplicants' = other.primeImplicants
    /\ essentialPrimes' = other.essentialPrimes
    /\ cover' = other.cover
    /\ uncoveredMinterms' = uncoveredMinterms
    /\ remainingPrimes' = other.remainingPrimes
    /\ lastPick' = other.lastPick
    /\ result' = other.result
    /\ error' = other.error
    /\ firstOutcome' = other.firstOutcome

\* the next step is a step of the call on the other object: the stepping
\* object and its call are set aside, the other object's are taken up
Switch ==
    /\ other.id # 0
    /\ other' = ObjectState(3 - other.id)
    /\ numVars' = other.numVars
    /\ minterms' = other.minterms
    /\ dontcares' = other.dontcares
    /\ varNames' = other.varNames
    /\ shiftUB' = other.shiftUB
    /\ pc' = other.pc
    /\ calls' = other.calls
    /\ allTerms' = other.allTerms
    /\ groups' = other.groups
    /\ round' = other.round
    /\ lastRound' = other.lastRound
    /\ primeImplicants' = other.primeImplicants
    /\ essentialPrimes' = other.essentialPrimes
    /\ cover' = other.cover
    /\ uncoveredMinterms' = other.uncoveredMinterms
    /\ remainingPrimes' = other.remainingPrimes
    /\ lastPick' = other.lastPick
    /\ result' = other.result
    /\ error' = other.error
    /\ firstOutcome' = other.firstOutcome

PairNext == Next \/ Switch

PairSpec == PairInit /\ [][PairNext]_vars

\* The same machine started before the constructor has run, so that all
\* instances hang off one initial state.
InitNew ==
    /\ numVars = 0
    /\ minterms = <<>>
    /\ dontcares = <<>>
    /\ varNames = <<>>
    /\ shiftUB = 0
    /\ pc = "new"
    /\ calls = 0
    /\ firstOutcome = NoOutcome
    /\ other = NoObject
    /\ FreshLocals

\* QuineMcCluskey(vars, m, dc), followed by the first call of minimize()
Construct ==
    /\ pc = "new"
    /\ \E inst \in Instances :
          /\ numVars' = inst.nv
          /\ minterms' = inst.m
          /\ dontcares' = inst.d
          /\ varNames' = initializeVarNames(inst.nv)
          /\ shiftUB' \in ShiftOutcomes(inst.nv)
    /\ pc' = "start"
    /\ calls' = 1
    /\ UNCHANGED <<allTerms, groups, round, lastRound, primeImplicants,
                   essentialPrimes, cover, uncoveredMinterms, remainingPrimes,
                   lastPick, result, error, firstOutcome, other>>

NextNew == Construct \/ Next

\* minimize() is synchronous and single-threaded: a call that has a next step
\* takes it
FairSpec == InitNew /\ [][NextNew]_vars /\ WF_vars(NextNew)

----------------------------------------------------------------------------
(* Vocabulary of the properties.                                           *)

\* bit of term at pattern position i (1 = most significant of nv bits)
TermBit(term, i, nv) == (term \div Pow2(nv - i)) % 2

\* the pattern matches the term at every position that is not '-'
Matches(binary, term) ==
    \A i \in 1..Len(binary) :
        \/ binary[i] = "-"
        \/ binary[i] = "1" /\ TermBit(term, i, Len(binary)) = 1
        \/ binary[i] = "0" /\ TermBit(term, i, Len(binary)) = 0

InRange(term, nv) == 0 <= term /\ term <= Pow2(nv) - 1

ValidVarCount == 1 <= numVars /\ numVars <= 8

AllTermsInRange ==
    /\ \A i \in 1..Len(minterms) : InRange(minterms[i], numVars)
    /\ \A i \in 1..Len(dontcares) : InRange(dontcares[i], numVars)

ValidInstance == ValidVarCount /\ AllTermsInRange

Returned == pc = "done"

Failed == pc = "failed"

Patterns(imps) == [i \in 1..Len(imps) |-> imps[i].binary]

\* the value at term of the expression the string str denotes: an OR, over
\* the parts of str between '+' characters, of the AND of the part's literals
LetterPos(c) == CHOOSE i \in 1..Len(Letters) : Letters[i] = c

IsLetter(c) == \E i \in 1..Len(Letters) : Letters[i] = c

ProductOf(str, p) == Cardinality({q \in 1..(p - 1) : str[q] = "+"})

LiteralTrue(str, p, term, nv) ==
    IF p < Len(str) /\ str[p + 1] = "'"
    THEN TermBit(term, LetterPos(str[p]), nv) = 0
    ELSE TermBit(term, LetterPos(str[p]), nv) = 1

EvalSOP(str, term, nv) ==
    IF str = <<"0">> THEN FALSE
    ELSE IF str = <<"1">> THEN TRUE
    ELSE \E k \in 0..Cardinality({q \in 1..Len(str) : str[q] = "+"}) :
            \A p \in 1..Len(str) :
                (IsLetter(str[p]) /\ ProductOf(str, p) = k)
                    => LiteralTrue(str, p, term, nv)

\* the products of the string str: its parts between " + " separators
PlusPositions(str) == SortedSeqOfSet({q \in 1..Len(str) : str[q] = "+"})

ProductsOf(str) ==
    IF str = <<"0">> THEN <<>>
    ELSE LET ps == PlusPositions(str)
             n == Len(ps)
         IN  [k \in 1..(n + 1) |->
                 SubSeq(str, IF k = 1 THEN 1 ELSE ps[k - 1] + 2,
                             IF k = n + 1 THEN Len(str) ELSE ps[k] - 2)]

\* every '+' has one space on each side and there is no other space
WellSeparated(str) ==
    /\ \A q \in 1..Len(str) :
           str[q] = "+" =>
               /\ 2 < q /\ q < Len(str) - 1
               /\ str[q - 1] = " " /\ str[q + 1] = " "
               /\ str[q - 2] \notin {" ", "+"} /\ str[q + 2] \notin {" ", "+"}
    /\ \A q \in 1..Len(str) :
           str[q] = " " =>
               \/ q > 1 /\ str[q - 1] = "+"
               \/ q < Len(str) /\ str[q + 1] = "+"

\* the product of all nv literals that is 1 on the term m alone, from letter i
RECURSIVE MintermProduct(_, _, _)
MintermProduct(m, nv, i) ==
    IF i > nv THEN <<>>
    ELSE <<Letters[i]>> \o (IF TermBit(m, i, nv) = 0 THEN <<"'">> ELSE <<>>)
         \o MintermProduct(m, nv, i + 1)

\* two terms differ in exactly one bit
OneBitApart(a, b, nv) ==
    Cardinality({i \in 1..nv : TermBit(a, i, nv) # TermBit(b, i, nv)}) = 1

\* the string p is the product of the pattern binary: one literal for each
\* position that is not '-', in order, a letter followed by an apostrophe for '0'
IsProductOf(p, binary) ==
    LET pos == SortedSeqOfSet({i \in 1..Len(binary) : binary[i] # "-"})
        at == SortedSeqOfSet({q \in 1..Len(p) : IsLetter(p[q])})
    IN  /\ \A q \in 1..Len(p) :
               IsLetter(p[q]) \/ (p[q] = "'" /\ q > 1 /\ IsLetter(p[q - 1]))
        /\ Len(at) = Len(pos)
        /\ \A k \in 1..Len(at) :
               /\ p[at[k]] = Letters[pos[k]]
               /\ (at[k] < Len(p) /\ p[at[k] + 1] = "'") <=> binary[pos[k]] = "0"

\* the size of a smallest set of the primes that covers every term of ms
MinCoverSize(primes, ms) ==
    Min({Cardinality(X) :
            X \in {Y \in SUBSET (1..Len(primes)) :
                      \A m \in Range(ms) :
                          \E i \in Y : Matches(primes[i].binary, m)}})

\* the pattern of term t with the positions of S replaced by '-'
Dashed(t, S, nv) ==
    [i \in 1..nv |-> IF i \in S THEN "-"
                     ELSE IF TermBit(t, i, nv) = 1 THEN "1" ELSE "0"]

DashCount(binary) == Cardinality({i \in 1..Len(binary) : binary[i] = "-"})

\* every term the pattern matches is in T (a set of terms of Len(binary) bits)
IsCube(binary, T) ==
    Cardinality({t \in T : Matches(binary, t)}) = Pow2(DashCount(binary))

\* the cubes of T that stop being cubes of T when one more position is
\* replaced by '-'
MaximalCubes(T, nv) ==
    {p \in {Dashed(t, S, nv) : t \in T, S \in SUBSET (1..nv)} :
        /\ IsCube(p, T)
        /\ \A i \in 1..nv : p[i] # "-" => ~IsCube([p EXCEPT ![i] = "-"], T)}

\* the implicants of all groups of a round
ImplicantsOf(g) == UNION {Range(g[k]) : k \in DOMAIN g}

\* the implicant's list of minterms is not empty, has no element twice, and
\* holds exactly the terms its pattern matches, all of them terms of T
WellFormedImplicant(imp, T, nv) ==
    /\ imp.minterms # <<>>
    /\ Cardinality(Range(imp.minterms)) = Len(imp.minterms)
    /\ Range(imp.minterms) = {t \in TermsOf(nv) : Matches(imp.binary, t)}
    /\ Len(imp.minterms) = Pow2(DashCount(imp.binary))
    /\ Range(imp.minterms) \subseteq T

\* c is the merge of a and b: the union of their lists, and their pattern
\* with the one position where they differ replaced by '-'
IsMergeOf(c, a, b) ==
    /\ Range(c.minterms) = Range(a.minterms) \cup Range(b.minterms)
    /\ \E i \in 1..Len(a.binary) :
           /\ a.binary[i] # b.binary[i]
           /\ \A j \in 1..Len(a.binary) : j # i => a.binary[j] = b.binary[j]
           /\ c.binary = [a.binary EXCEPT ![i] = "-"]

\* the implicants of the groups g in the order of the map: ascending key,
\* then position in the group
RECURSIVE FlatUpTo(_, _, _)
FlatUpTo(g, keys, n) ==
    IF n <= 0 THEN <<>> ELSE FlatUpTo(g, keys, n - 1) \o g[keys[n]]

FlatOf(g) == FlatUpTo(g, SortedSeqOfSet(DOMAIN g), Cardinality(DOMAIN g))

\* the p-th implicant of the round merges with an implicant of the round
\* that has one more or one fewer '1'
ConsumedAt(flat, p) ==
    \E q \in 1..Len(flat) :
        /\ countOnes(flat[q]) - countOnes(flat[p]) \in {-1, 1}
        /\ canMerge(flat[p], flat[q])

\* order of pattern strings, '-' before '0' before '1'
CharRank(c) == CHOOSE r \in 1..3 : <<"-", "0", "1">>[r] = c

PatternLess(a, b) ==
    \E i \in 1..Len(a) :
        /\ \A j \in 1..(i - 1) : a[j] = b[j]
        /\ CharRank(a[i]) < CharRank(b[i])

\* the patterns of the implicants of imps that match the term m
CoveringPatterns(imps, m) ==
    {imps[i].binary : i \in {k \in 1..Len(imps) : Matches(imps[k].binary, m)}}

NoPatternTwice(imps) ==
    \A i, j \in 1..Len(imps) : imps[i].binary = imps[j].binary => i = j

----------------------------------------------------------------------------
(* Properties.                                                             *)

\* C1 (coverage): when minimize() has returned on a valid instance, every
\* term of minterms is matched, at every position that is not '-', by the
\* pattern of at least one implicant of the final cover.
C1_Coverage ==
    (Returned /\ ValidInstance) =>
        \A m \in Range(minterms) :
            \E i \in 1..Len(cover) : Matches(cover[i].binary, m)

\* a three-variable call has returned a cover to which the greedy loop added
C1_Witness ==
    /\ Returned /\ ValidInstance
    /\ numVars = 3
    /\ lastPick # NoPick
    /\ Len(cover) >= 3

\* C2 (no over-covering): the expression returned on a valid instance is 0
\* on every term of [0, 2^numVars - 1] that is in neither minterms nor
\* dontCares.
C2_NoOverCover ==
    (Returned /\ ValidInstance) =>
        \A t \in TermsOf(numVars) \ (Range(minterms) \cup Range(dontcares)) :
            ~EvalSOP(result, t, numVars)

\* a returned sum of several products that is 1 on a don't-care and has a
\* term on which it must be 0
C2_Witness ==
    /\ Returned /\ ValidInstance
    /\ \E q \in 1..Len(result) : result[q] = "+"
    /\ \E i \in 1..Len(dontcares) : EvalSOP(result, dontcares[i], numVars)
    /\ TermsOf(numVars) \ (Range(minterms) \cup Range(dontcares)) # {}

\* C3 (variable-count validation): with numVars outside [1, 8], whatever the
\* vectors, a call that has left its entry checks has failed with the
\* invalid-variable-count error and returned nothing.
C3_VarCountRejected ==
    (~ValidVarCount /\ pc # "start") =>
        (Failed /\ error.kind = "InvalidVariableCount" /\ result = <<>>)

\* C4 (term-range validation): with numVars in 1..8 and an element of
\* minterms or dontCares negative or above 2^numVars - 1, a call that has
\* left its entry checks has failed with the term-out-of-range error and
\* returned nothing.
C4_TermRangeRejected ==
    (ValidVarCount /\ ~AllTermsInRange /\ pc # "start") =>
        (Failed /\ error.kind = "TermOutOfRange" /\ result = <<>>)

\* numVars = 2 with minterm 5 has failed
C4_Witness ==
    /\ numVars = 2 /\ minterms = <<5>> /\ dontcares = <<>>
    /\ Failed /\ error = [kind |-> "TermOutOfRange", what |-> "Minterm", term |-> 5]

\* C5 (validation first, atomic failure): on an invalid instance a call is
\* only ever at its entry or failed: no generation, selection, cover or
\* formatting step is taken and nothing is returned.
C5_InvalidNeverWorks ==
    ~ValidInstance =>
        /\ pc \in {"start", "failed"}
        /\ result = <<>>
        /\ primeImplicants = <<>> /\ groups = <<>> /\ cover = <<>>

C7_Determinism ==
    /\ []((calls >= 2 /\ pc \in {"done", "failed"}) =>
            firstOutcome = [pc |-> pc, result |-> result, error |-> error])
    /\ [][UNCHANGED <<numVars, minterms, dontcares, varNames>>]_vars

\* a second call has returned a sum of products on unsorted vectors
C7_Witness ==
    /\ calls = 2 /\ Returned
    /\ firstOutcome.pc = "done"
    /\ Len(result) >= 6
    /\ minterms # SortInts(minterms)
    /\ dontcares # <<>>

\* C8 (tautology): on a valid instance the returned string is "1" exactly
\* when minterms is not empty and minterms and dontCares together hold all
\* 2^numVars terms; the cover then holds the all-'-' implicant.
C8_Tautology ==
    (Returned /\ ValidInstance) =>
        /\ result = <<"1">> <=>
              (minterms # <<>>
               /\ Range(minterms) \cup Range(dontcares) = TermsOf(numVars))
        /\ result = <<"1">> =>
              \E i \in 1..Len(cover) : cover[i].binary = [k \in 1..numVars |-> "-"]

\* numVars = 2, minterms = {0,1,2,3} has returned "1"
C8_Witness ==
    /\ Returned
    /\ numVars = 2 /\ minterms = <<0, 1, 2, 3>> /\ dontcares = <<>>
    /\ result = <<"1">>

\* C9 (contradiction): on a valid instance the returned string is "0"
\* exactly when minterms is empty, and the final cover is empty exactly then.
C9_Contradiction ==
    (Returned /\ ValidInstance) =>
        /\ result = <<"0">> <=> minterms = <<>>
        /\ cover = <<>> <=> minterms = <<>>

\* no minterm but don't-cares: "0" has been returned
C9_Witness ==
    /\ Returned /\ ValidInstance
    /\ minterms = <<>> /\ Len(dontcares) >= 2
    /\ result = <<"0">>

\* C10 (don't-care absorption): for numVars = 3, minterms {0,2,4,6} and
\* dontCares {1,5} in any order, the returned string is "C'": the cover is the
\* prime "--0" alone, and the prime "-0-" exists and is not selected.
C10_Absorption ==
    (Returned /\ numVars = 3 /\ Range(minterms) = {0, 2, 4, 6}
        /\ Range(dontcares) = {1, 5}) =>
        /\ result = <<"C", "'">>
        /\ Patterns(cover) = << <<"-", "-", "0">> >>
        /\ \E i \in 1..Len(primeImplicants) :
              primeImplicants[i].binary = <<"-", "0", "-">>

\* the instance, its vectors in descending order, has returned
C10_Witness ==
    /\ Returned
    /\ numVars = 3 /\ minterms = <<6, 4, 2, 0>> /\ dontcares = <<5, 1>>
    /\ result = <<"C", "'">>

\* C11 (known minimal case): for numVars = 2, minterms the set {0,1,2} in any
\* order and no don't-cares, the returned string is "A' + B'" or "B' + A'";
\* the cover is the two primes "0-" and "-0", and both are essential.
C11_KnownMinimal ==
    (Returned /\ numVars = 2 /\ Range(minterms) = {0, 1, 2} /\ dontcares = <<>>) =>
        /\ result \in {<<"A", "'", " ", "+", " ", "B", "'">>,
                       <<"B", "'", " ", "+", " ", "A", "'">>}
        /\ Len(cover) = 2
        /\ Range(Patterns(cover)) = {<<"0", "-">>, <<"-", "0">>}
        /\ Range(Patterns(primeImplicants)) = {<<"0", "-">>, <<"-", "0">>}
        /\ Len(essentialPrimes) = 2
        /\ Range(Patterns(essentialPrimes)) = {<<"0", "-">>, <<"-", "0">>}
        /\ \A i \in 1..Len(cover) : cover[i].isEssential

\* the instance with its minterms in the order 2, 1, 0 has returned "B' + A'"
C11_Witness ==
    /\ Returned
    /\ numVars = 2 /\ minterms = <<2, 1, 0>> /\ dontcares = <<>>
    /\ result = <<"B", "'", " ", "+", " ", "A", "'">>

\* C12 (non-emptiness): the string returned on a valid instance with at least
\* one minterm is never the empty string.
C12_NonEmpty ==
    (Returned /\ ValidInstance /\ minterms # <<>>) => result # <<>>

\* a tautology, whose only product has no literal, has returned
C12_Witness ==
    /\ Returned /\ ValidInstance
    /\ minterms # <<>>
    /\ \E i \in 1..Len(cover) : \A k \in 1..numVars : cover[i].binary[k] = "-"
    /\ result # <<>>

\* C13 (MSB-first naming on unmergeable input): on a valid instance in which
\* no two terms of minterms and dontCares differ in exactly one bit, the
\* returned string has one product per distinct minterm, and its products
\* are, for each minterm, the numVars literals A, B, C, ... in that order,
\* the i-th plain when bit numVars-i of the minterm is 1 and with an
\* apostrophe when it is 0.
C13_MsbFirstNaming ==
    (Returned /\ ValidInstance
        /\ \A a, b \in Range(minterms) \cup Range(dontcares) :
               ~OneBitApart(a, b, numVars)) =>
        LET products == ProductsOf(result)
        IN  /\ Len(products) = Cardinality(Range(minterms))
            /\ Range(products) = {MintermProduct(m, numVars, 1) : m \in Range(minterms)}

\* the full-adder sum has returned its four products
C13_Witness ==
    /\ Returned
    /\ numVars = 3 /\ Range(minterms) = {1, 2, 4, 7} /\ dontcares = <<>>
    /\ Len(ProductsOf(result)) = 4
    /\ <<"A", "'", "B", "'", "C">> \in Range(ProductsOf(result))

\* C14 (output shape): a string returned on a valid instance that is neither
\* "0" nor "1" is the products of the implicants of the final cover, one
\* each and in cover order, none empty, joined by " + " with no separator
\* at either end and none doubled; a product has one literal per position
\* of the pattern that is not '-', a letter followed by an apostrophe for '0'.
C14_OutputShape ==
    (Returned /\ ValidInstance /\ result \notin {<<"0">>, <<"1">>}) =>
        /\ WellSeparated(result)
        /\ result[1] # " " /\ result[Len(result)] # " "
        /\ LET products == ProductsOf(result)
           IN  /\ Len(products) = Len(cover)
               /\ \A i \in 1..Len(cover) :
                      /\ products[i] # <<>>
                      /\ IsProductOf(products[i], cover[i].binary)

\* a sum of three products, one of them a single complemented literal
C14_Witness ==
    /\ Returned /\ ValidInstance
    /\ Len(cover) >= 3
    /\ Len(ProductsOf(result)) = Len(cover)
    /\ \E i \in 1..Len(cover) :
           /\ Cardinality({k \in 1..numVars : cover[i].binary[k] = "-"}) = numVars - 1
           /\ Len(ProductsOf(result)[i]) = 2

\* C15 (input-order independence): the string returned on a valid instance
\* depends on the sets of minterms and don't-cares only: it is the string
\* returned for the same two sets given in ascending order without
\* repetition, whatever the order and repetitions of the vectors.
C15_OrderIndependent ==
    (Returned /\ ValidInstance) =>
        result = minimize(numVars, SortedSeqOfSet(Range(minterms)),
                          SortedSeqOfSet(Range(dontcares)))

\* C17 (greedy limitation): for numVars = 3, minterms {0,1,2,5,6,7} and no
\* don't-cares the final cover has 4 implicants, strictly more than the 3 of
\* the smallest set of prime implicants that covers every minterm.
C17_GreedyNotMinimal ==
    (Returned /\ numVars = 3 /\ Range(minterms) = {0, 1, 2, 5, 6, 7}
        /\ dontcares = <<>>) =>
        /\ Len(cover) > MinCoverSize(primeImplicants, minterms)
        /\ Len(cover) = 4
        /\ MinCoverSize(primeImplicants, minterms) = 3

\* the call on that instance has returned, the greedy loop having picked
C17_Witness ==
    /\ Returned
    /\ numVars = 3 /\ minterms = <<0, 1, 2, 5, 6, 7>> /\ dontcares = <<>>
    /\ essentialPrimes = <<>> /\ lastPick # NoPick
    /\ Len(primeImplicants) = 6

\* C18 (prime generation is sound and complete): when findPrimeImplicants
\* has returned on a valid instance, the set of its patterns is the set of
\* maximal cubes of minterms and dontCares together; and in every merge
\* round any two implicants that can merge have counts of ones that differ
\* by 1, so pairing adjacent groups only misses no mergeable pair.
C18_PrimesSoundComplete ==
    /\ (ValidInstance /\ pc = "essential") =>
           Range(Patterns(primeImplicants))
               = MaximalCubes(Range(minterms) \cup Range(dontcares), numVars)
    /\ (ValidInstance /\ pc = "merge") =>
           \A a, b \in ImplicantsOf(groups) :
               canMerge(a, b) =>
                   (countOnes(a) - countOnes(b) = 1 \/ countOnes(b) - countOnes(a) = 1)

\* primes of three merge rounds and primes left unmerged in an earlier round
\* have been returned together
C18_Witness ==
    /\ ValidInstance /\ pc = "essential"
    /\ numVars = 3 /\ round >= 3
    /\ \E i, j \in 1..Len(primeImplicants) :
           /\ DashCount(primeImplicants[i].binary) = 2
           /\ DashCount(primeImplicants[j].binary) <= 1

\* C19 (implicant invariant): on a valid instance every implicant of every
\* merge round, every merged implicant and every collected prime has a
\* non-empty, duplicate-free list of minterms that is exactly the set of
\* terms its pattern matches (2^d of them for d '-' symbols), all of them in
\* minterms or dontCares; and every merged implicant is the merge of two
\* implicants of its round: the union of their lists, and their pattern
\* with the single differing position replaced by '-'.
C19_ImplicantInvariant ==
    ValidInstance =>
        LET T == Range(minterms) \cup Range(dontcares)
        IN  /\ \A imp \in ImplicantsOf(groups) \cup Range(primeImplicants)
                          \cup Range(lastRound.merged) \cup Range(lastRound.emitted) :
                   WellFormedImplicant(imp, T, numVars)
            /\ \A c \in Range(lastRound.merged) :
                   \E a, b \in ImplicantsOf(lastRound.groups) : IsMergeOf(c, a, b)

\* a round has merged implicants that already covered two terms each
C19_Witness ==
    /\ ValidInstance /\ pc = "merge"
    /\ round = 2
    /\ Len(lastRound.merged) >= 2
    /\ \E c \in Range(lastRound.merged) : Len(c.minterms) = 4

\* C20 (no misaligned merge): in merge round r (r = 0 for the single-term
\* implicants) every implicant's pattern has exactly r '-' symbols; two
\* implicants of a round for which canMerge is true have '-' at the same
\* positions, and the position where they differ holds '0' in one and '1'
\* in the other.
C20_NoMisalignedMerge ==
    pc = "merge" =>
        /\ \A a \in ImplicantsOf(groups) : DashCount(a.binary) = round
        /\ \A a, b \in ImplicantsOf(groups) :
               canMerge(a, b) =>
                   /\ \A j \in 1..Len(a.binary) :
                          a.binary[j] = "-" <=> b.binary[j] = "-"
                   /\ \E i \in 1..Len(a.binary) :
                          {a.binary[i], b.binary[i]} = {"0", "1"}

\* a round whose implicants have one '-' each holds a pair that can merge
C20_Witness ==
    /\ pc = "merge" /\ round = 1
    /\ \E a, b \in ImplicantsOf(groups) : canMerge(a, b)
    /\ \E a, b \in ImplicantsOf(groups) :
           /\ countOnes(a) + 1 = countOnes(b)
           /\ ~canMerge(a, b)

\* C16 (independence of concurrent calls): with minimize() running on two
\* distinct objects, their steps interleaved in any order, a step of one
\* call leaves the other object and its call as they are, and each call that
\* returns, returns the string minimize() returns on its object when run alone.
C16_ConcurrentCalls ==
    /\ []((Returned /\ ValidInstance) =>
             result = minimize(numVars, minterms, dontcares))
    /\ []((other.pc = "done" /\ other.error = NoError) =>
             other.result = minimize(other.numVars, other.minterms, other.dontcares))
    /\ [][Switch \/ other' = other]_vars

\* one call has gone through its greedy loop and returned while the call on
\* the other object, started first, waits in the middle of its own greedy loop
C16_Witness ==
    /\ Returned /\ lastPick # NoPick /\ calls = 1
    /\ other.id = 1 /\ other.pc = "greedy" /\ other.lastPick # NoPick
    /\ other.uncoveredMinterms # {} /\ other.calls = 1
    /\ other.numVars # numVars

\* C21 (consumed/emitted bookkeeping): in every merge round the flat index
\* into marked addresses the same implicant while merging and while
\* collecting: marked has one entry per implicant of the round, the entry is
\* true exactly for the implicants that merged with an implicant of an
\* adjacent group, and the implicants appended to the prime list are exactly
\* the others, in the order of the map; every merged implicant has two
\* consumed parents.
C21_Bookkeeping ==
    lastRound # NoRound =>
        LET flat == FlatOf(lastRound.groups)
        IN  /\ DOMAIN lastRound.marked = 0..(Len(flat) - 1)
            /\ \A p \in 1..Len(flat) : lastRound.marked[p - 1] <=> ConsumedAt(flat, p)
            /\ lastRound.emitted = KeepIndices(flat, LAMBDA p : ~ConsumedAt(flat, p))
            /\ \A c \in Range(lastRound.merged) :
                   \E p, q \in 1..Len(flat) :
                       /\ IsMergeOf(c, flat[p], flat[q])
                       /\ lastRound.marked[p - 1] /\ lastRound.marked[q - 1]

\* a round of three groups has consumed some implicants of its second and
\* third groups and emitted others
C21_Witness ==
    /\ lastRound # NoRound
    /\ Len(lastRound.keys) >= 3
    /\ lastRound.merged # <<>> /\ lastRound.emitted # <<>>
    /\ \E p \in DOMAIN lastRound.marked :
           /\ p >= Len(lastRound.groups[lastRound.keys[1]])
           /\ lastRound.marked[p]
    /\ \E p \in DOMAIN lastRound.marked :
           /\ p >= Len(lastRound.groups[lastRound.keys[1]])
           /\ ~lastRound.marked[p]

\* C22 (prime list form): the list findPrimeImplicants has returned is in
\* strictly ascending order of pattern string ('-' < '0' < '1'), so no two
\* of its implicants have the same pattern.
C22_PrimeListForm ==
    pc \in {"essential", "cover", "greedy", "format", "done"} =>
        \A i, j \in 1..Len(primeImplicants) :
            i < j => PatternLess(primeImplicants[i].binary, primeImplicants[j].binary)

\* the last round emitted the same pattern twice, and the returned list has
\* it once among other primes
C22_Witness ==
    /\ pc = "essential"
    /\ Len(primeImplicants) >= 3
    /\ \E i, j \in 1..Len(lastRound.emitted) :
           i # j /\ lastRound.emitted[i].binary = lastRound.emitted[j].binary

\* C23 (essential selection): on a valid instance the patterns of the list
\* findEssentialPrimes has returned are exactly the patterns of the primes
\* that are, for some term of minterms, the only prime matching it; no
\* pattern is in the list twice.  A term of dontCares alone does not count.
C23_EssentialSelection ==
    (ValidInstance /\ pc \in {"cover", "greedy", "format", "done"}) =>
        /\ Range(Patterns(essentialPrimes))
              = {b \in Range(Patterns(primeImplicants)) :
                    \E m \in Range(minterms) :
                        CoveringPatterns(primeImplicants, m) = {b}}
        /\ NoPatternTwice(essentialPrimes)

\* a term that is only a don't-care is matched by one prime alone, which is
\* not essential, while another prime is; and one essential prime is the
\* only prime of two minterms
C23_Witness ==
    /\ ValidInstance /\ pc = "cover"
    /\ essentialPrimes # <<>>
    /\ \E t \in Range(dontcares) \ Range(minterms) :
           \E b \in Range(Patterns(primeImplicants)) \ Range(Patterns(essentialPrimes)) :
               CoveringPatterns(primeImplicants, t) = {b}
    /\ \E m1, m2 \in Range(minterms) :
           /\ m1 # m2
           /\ Cardinality(CoveringPatterns(primeImplicants, m1)) = 1
           /\ CoveringPatterns(primeImplicants, m1) = CoveringPatterns(primeImplicants, m2)

\* C24 (cover composition): in the final cover of a valid instance every
\* essential prime is present, every implicant is an implicant of the prime
\* list (same pattern, same minterms), and no pattern occurs twice.
C24_CoverComposition ==
    (ValidInstance /\ pc \in {"format", "done"}) =>
        /\ Range(Patterns(essentialPrimes)) \subseteq Range(Patterns(cover))
        /\ \A i \in 1..Len(cover) :
               \E k \in 1..Len(primeImplicants) :
                   /\ primeImplicants[k].binary = cover[i].binary
                   /\ primeImplicants[k].minterms = cover[i].minterms
        /\ NoPatternTwice(cover)

\* a final cover of essential primes and greedy picks together
C24_Witness ==
    /\ ValidInstance /\ Returned
    /\ essentialPrimes # <<>>
    /\ Len(cover) > Len(essentialPrimes)
    /\ Len(primeImplicants) > Len(cover)

\* C25 (essentials suffice): when every term of minterms is matched by an
\* essential prime, the final cover is the essential primes and nothing else.
C25_EssentialsSuffice ==
    (ValidInstance /\ pc \in {"format", "done"}
        /\ \A m \in Range(minterms) :
               \E e \in 1..Len(essentialPrimes) : Matches(essentialPrimes[e].binary, m)) =>
        /\ Len(cover) = Len(essentialPrimes)
        /\ Range(cover) = Range(essentialPrimes)

\* the essential primes cover all minterms and a prime that matches a
\* minterm is left out
C25_Witness ==
    /\ ValidInstance /\ Returned
    /\ Len(essentialPrimes) >= 2
    /\ cover = essentialPrimes
    /\ \E k \in 1..Len(primeImplicants) :
           /\ primeImplicants[k].binary \notin Range(Patterns(cover))
           /\ \E m \in Range(minterms) : Matches(primeImplicants[k].binary, m)

\* C26 (greedy choice and tie-break): in every iteration of the greedy loop
\* the candidates are the primes not yet in the cover, in pattern order; the
\* prime added matches at least as many of the still uncovered minterms as
\* any candidate and strictly more than every candidate before it; and
\* afterwards the uncovered set has lost exactly the minterms it matches.
C26_GreedyChoice ==
    lastPick # NoPick =>
        LET Count(x) == Cardinality({m \in lastPick.before : Matches(x.binary, m)})
            cands == lastPick.candidates
        IN  /\ cands[lastPick.idx] = lastPick.prime
            /\ \A i \in 1..Len(cands) :
                   /\ Count(cands[i]) <= Count(lastPick.prime)
                   /\ i < lastPick.idx => Count(cands[i]) < Count(lastPick.prime)
            /\ \A i, j \in 1..Len(cands) :
                   i < j => PatternLess(cands[i].binary, cands[j].binary)
            /\ pc = "greedy" =>
                   /\ cover[Len(cover)] = lastPick.prime
                   /\ Range(Patterns(cands))
                         = Range(Patterns(primeImplicants))
                             \ Range(Patterns(SubSeq(cover, 1, Len(cover) - 1)))
            /\ uncoveredMinterms
                  = {m \in lastPick.before : ~Matches(lastPick.prime.binary, m)}

\* an iteration has picked the third candidate, two candidates tying with it
C26_Witness ==
    /\ lastPick # NoPick /\ pc = "greedy"
    /\ lastPick.idx >= 3
    /\ Cardinality({i \in 1..Len(lastPick.candidates) :
                       Cardinality({m \in lastPick.before :
                                       Matches(lastPick.candidates[i].binary, m)})
                         = Cardinality({m \in lastPick.before :
                                           Matches(lastPick.prime.binary, m)})}) >= 3

\* C27 (no useless pick): the prime a greedy iteration selects matches at
\* least one still uncovered minterm; on a valid instance findMinimalCover
\* returns with the uncovered set empty; and every implicant of the final
\* cover matches a term of minterms, so a prime that matches don't-care
\* terms only is never in it.
C27_NoUselessPick ==
    /\ lastPick # NoPick =>
           \E m \in lastPick.before : Matches(lastPick.prime.binary, m)
    /\ (ValidInstance /\ pc \in {"format", "done"}) =>
           /\ uncoveredMinterms = {}
           /\ \A i \in 1..Len(cover) :
                  \E m \in Range(minterms) : Matches(cover[i].binary, m)

\* the greedy loop has ended with candidates left, one of which matches
\* don't-care terms only
C27_Witness ==
    /\ ValidInstance /\ Returned
    /\ lastPick # NoPick
    /\ \E k \in 1..Len(remainingPrimes) :
           \A m \in Range(minterms) : ~Matches(remainingPrimes[k].binary, m)

\* C28 (sorted final cover): the final cover of a valid instance is in
\* ascending order of pattern string, whether the essential primes alone
\* cover all minterms or greedy picks were added.
C28_SortedCover ==
    (ValidInstance /\ pc \in {"format", "done"}) =>
        \A i, j \in 1..Len(cover) :
            i < j => ~PatternLess(cover[j].binary, cover[i].binary)

\* C29 (overlapping sets): a term that is in both minterms and dontCares is
\* required: it is matched by an implicant of the final cover, and a prime
\* that alone matches it is essential; and the string returned is the one
\* returned with the terms of minterms removed from dontCares.
C29_OverlappingSets ==
    (ValidInstance /\ Returned) =>
        /\ \A t \in Range(minterms) \cap Range(dontcares) :
               /\ \E i \in 1..Len(cover) : Matches(cover[i].binary, t)
               /\ \A b \in Range(Patterns(primeImplicants)) :
                      CoveringPatterns(primeImplicants, t) = {b}
                          => b \in Range(Patterns(essentialPrimes))
        /\ result = minimize(numVars, minterms,
                             SelectSeq(dontcares, LAMBDA t : t \notin Range(minterms)))

\* a term in both vectors is the only minterm its essential prime matches
C29_Witness ==
    /\ ValidInstance /\ Returned
    /\ Len(cover) >= 2
    /\ \E t \in Range(minterms) \cap Range(dontcares) :
           \E e \in 1..Len(essentialPrimes) :
               /\ CoveringPatterns(primeImplicants, t) = {essentialPrimes[e].binary}
               /\ \A m \in Range(minterms) \ {t} : ~Matches(essentialPrimes[e].binary, m)

\* C30 (irredundant cover): in the final cover of a valid instance every
\* implicant matches a term of minterms that no other implicant of the
\* cover matches.
C30_IrredundantCover ==
    (ValidInstance /\ Returned) =>
        \A i \in 1..Len(cover) :
            \E m \in Range(minterms) :
                /\ Matches(cover[i].binary, m)
                /\ \A j \in 1..Len(cover) : j # i => ~Matches(cover[j].binary, m)

====
